---- MODULE Spec2Model ----
(***************************************************************************)
(* Model of the dictation session controller of hotkey-type               *)
(* (src/src/App.tsx): the "dictation-toggle" listener, the settings       *)
(* loader, and the setTimeout recoveries, as a state machine over the     *)
(* React state and refs of the App component.                             *)
(*                                                                         *)
(* Strings are sequences of tokens: a literal chunk of text is one token, *)
(* a blank is the token " ".  Time is in milliseconds.                    *)
(***************************************************************************)
EXTENDS Integers, Sequences, FiniteSets, TLC

VARIABLES
    now,            \* Date.now()
    label,          \* getCurrentWindow().label of this window
    windowLabel,    \* useState windowLabel (App.tsx:20)
    listening,      \* the dictation-toggle listener is registered
    phase,          \* useState phase
    message,        \* useState message
    cached,         \* useState provider / openaiApiKey / googleApiKey / googleLanguage
    closure,        \* the values of those four captured by the registered listener
    lastHandledRef, \* useRef lastHandledRef
    recordingRef,   \* useRef recordingRef
    lastPathRef,    \* useRef lastPathRef
    handlers,       \* runs of the toggle handler suspended at an await
    timers,         \* pending setTimeout callbacks
    loads,          \* number of loadSettings() calls awaiting get_settings
    store,          \* the settings the backend holds (what get_settings answers)
    emitPending,    \* Settings saved, its settings-updated event not yet delivered
    \* ---- observation (history) variables, not read by any action's guard ----
    nToggles,       \* toggle signals delivered so far
    accepted,       \* times of the last two toggles that passed the gate, latest first
    nSettings,      \* settings-updated notifications delivered so far
    calls,          \* number of invocations per backend command
    lastInvoke,     \* the most recent backend invocation and its arguments
    phaseSince,     \* time of the last change of phase
    cycle,          \* the phases shown since the last toggle accepted in IDLE
    obs             \* the event the last step handled, with its argument

vars == << now, label, windowLabel, listening, phase, message, cached, closure,
           lastHandledRef, recordingRef, lastPathRef, handlers, timers, loads,
           store, emitPending, nToggles, accepted, nSettings, calls, lastInvoke, phaseSince, cycle,
           obs >>

\* ------------------------------------------------------------------ bounds
MaxTime == 3600
MaxToggles == 3
MaxInFlight == 2
MaxSettingsEvents == 1
StartTime == 200
FineSteps == {100, 150}

\* ------------------------------------------------------ program constants
DebounceMs == 150
DoneDelayMs == 2000
ErrorDelayMs == 3000

Phases == {"IDLE", "RECORDING", "TRANSCRIBING", "PASTING", "DONE", "ERROR"}

\* ------------------------------------------------------------------ strings
Blank == " "

RECURSIVE TrimStart(_)
TrimStart(s) == IF s # << >> /\ Head(s) = Blank THEN TrimStart(Tail(s)) ELSE s

RECURSIVE TrimEnd(_)
TrimEnd(s) ==
    IF s # << >> /\ s[Len(s)] = Blank THEN TrimEnd(SubSeq(s, 1, Len(s) - 1)) ELSE s

\* String.prototype.trim
TrimNothing(s) == s

Trim(s) == TrimEnd(TrimStart(s))

\* s || d
OrDefault(s, d) == IF s = << >> THEN d ELSE s

\* sub occurs in s as a contiguous run of tokens
Contains(s, sub) ==
    \E i \in 1..(Len(s) + 1) :
        /\ i + Len(sub) - 1 <= Len(s)
        /\ SubSeq(s, i, i + Len(sub) - 1) = sub

EnUS == << "en-US" >>

MsgRecording == << "Recording..." >>
MsgTranscribing == << "Transcribing..." >>
MsgPasting == << "Pasting..." >>
MsgNoText == << "No text was transcribed from the audio" >>
MsgPasted(text) == << "Pasted: \"" >> \o text \o << "\"" >>
MsgCopied(text) == << "Copied to clipboard (press Cmd-V): \"" >> \o text \o << "\"" >>
MsgError(errorMsg) == << "Error: " >> \o errorMsg

ErrNoOpenaiKey == << "Please set your OpenAI API key in Settings" >>
\* the google throw carrying the text of the openai one
ErrNoGoogleKeyCopied == << "Please set your OpenAI API key in Settings" >>

ErrNoGoogleKey == << "Please set your Google API key in Settings" >>

\* ------------------------------------------- what the backend can answer
StartPaths == {"a.wav"}
StopPaths == {"a.wav", "b.wav"}
TextValues == { << >>, << " " >>, << " ", "hi" >> }
ErrorValues == { << "backend failure" >> }

\* the settings of a fresh installation
FreshSettings ==
    [provider |-> "openai", openai_api_key |-> << >>, google_api_key |-> << >>,
     google_language |-> << >>]

\* the settings the user can save in the Settings window
SettingsValues ==
    { FreshSettings,
      [provider |-> "openai", openai_api_key |-> << " ", "sk" >>,
       google_api_key |-> << >>, google_language |-> << "fr-FR" >>],
      [provider |-> "google", openai_api_key |-> << "sk" >>,
       google_api_key |-> << "gk", " " >>, google_language |-> << " " >>],
      [provider |-> "google", openai_api_key |-> << "sk" >>,
       google_api_key |-> << " " >>, google_language |-> << "fr-FR" >>] }

\* what the store holds when the window opens
InstalledSettings ==
    { FreshSettings,
      [provider |-> "openai", openai_api_key |-> << " ", "sk" >>,
       google_api_key |-> << >>, google_language |-> << "fr-FR" >>] }

\* what the store can hold while a dictation is under way
StoredSettings ==
    SettingsValues \cup
    { [provider |-> "google", openai_api_key |-> << >>,
       google_api_key |-> << "gk" >>, google_language |-> << " ", "fr-FR" >>] }

\* useState defaults
DefaultSettings ==
    [provider |-> "openai", openaiApiKey |-> << >>, googleApiKey |-> << >>,
     googleLanguage |-> EnUS]

NoObs == [kind |-> "none", id |-> 0, arg |-> "none"]

Commands == {"start_recording", "stop_recording", "get_settings",
             "openai_transcribe", "google_transcribe", "paste_text"}

\* ------------------------------------------------------------------ helpers
Invoke(fn, id, audioPath, apiKey, language, text) ==
    [fn |-> fn, by |-> id, audioPath |-> audioPath, apiKey |-> apiKey,
     language |-> language, text |-> text]

CountTwice(fn) == [calls EXCEPT ![fn] = @ + 2]

Count(fn) == [calls EXCEPT ![fn] = @ + 1]

Handler(id, pc, path, prov, okey, gkey, lang, text) ==
    [id |-> id, pc |-> pc, path |-> path, prov |-> prov, okey |-> okey,
     gkey |-> gkey, lang |-> lang, text |-> text]

Timer(id, delay) == [at |-> now + delay, by |-> id, delay |-> delay]

Observe(kind, id, arg) == [kind |-> kind, id |-> id, arg |-> arg]

\* a debounce that also drops the toggle arriving exactly DebounceMs later
GateDropsInclusive(t, last) == t - last <= DebounceMs

\* the debounce test of the listener: line 108
GateDrops(t, last) == t - last < DebounceMs

\* e instanceof Error ? e.message : String(e)
ErrorMsgOf(e) == IF e.isError THEN e.message ELSE e.value

Thrown(m) == [isError |-> TRUE, message |-> m, value |-> << >>]
Rejected(v) == [isError |-> FALSE, message |-> << >>, value |-> v]

\* the times of the last two accepted toggles, t being the latest
Remember(t) == IF accepted = << >> THEN << t >> ELSE << t, accepted[1] >>

\* remembers when the phase last changed
StampPhase == phaseSince' = IF phase' # phase THEN now ELSE phaseSince

\* the events that make a cycle fail
FailureKinds == {"start_fail", "stop_fail", "reload_fail", "transcribe_fail",
                 "paste_fail"}

\* the cycle begun by the last toggle that started a recording while the phase
\* was IDLE and no run of the handler was in flight: the phases shown since
\* (that IDLE included), the toggles accepted in it, and whether every call has
\* succeeded so far.  The log is kept only while the cycle is clean and has at
\* most two toggles.
TrackCycle ==
    LET isToggle == obs'.kind = "toggle"
        failed == \/ obs'.kind \in FailureKinds
                  \/ phase' = "ERROR" /\ phase # "ERROR"
    IN  cycle' =
          IF isToggle /\ phase = "IDLE" /\ ~recordingRef /\ handlers = {}
          THEN [log |-> << "IDLE", phase' >>, toggles |-> 1, ok |-> TRUE]
          ELSE IF ~cycle.ok \/ cycle.toggles > 2 THEN cycle
          ELSE IF isToggle /\ cycle.toggles = 2
          THEN [log |-> << >>, toggles |-> 3, ok |-> cycle.ok]
          ELSE IF failed
          THEN [log |-> << >>, toggles |-> cycle.toggles, ok |-> FALSE]
          ELSE [log |-> IF phase' # phase THEN Append(cycle.log, phase')
                        ELSE cycle.log,
                toggles |-> cycle.toggles + (IF isToggle THEN 1 ELSE 0),
                ok |-> TRUE]

\* ------------------------------------------------------------------ Init
\* the state of the component after construction, whatever the clock reads
Constructed ==
    /\ label \in {"panel", "settings", "throws"}
    /\ windowLabel = "null"
    /\ listening = FALSE
    /\ phase = "IDLE"
    /\ message = << >>
    /\ cached = DefaultSettings
    /\ closure = DefaultSettings
    /\ lastHandledRef = 0
    /\ recordingRef = FALSE
    /\ lastPathRef = "null"
    /\ handlers = {}
    /\ timers = {}
    /\ loads = 1          \* loadSettings() of the mount effect
    /\ store \in InstalledSettings
    /\ emitPending = FALSE
    /\ nToggles = 0
    /\ accepted = << >>
    /\ nSettings = 0
    /\ calls = [c \in Commands |-> IF c = "get_settings" THEN 1 ELSE 0]
    /\ lastInvoke = Invoke("get_settings", 0, "", << >>, << >>, << >>)
    /\ phaseSince = now
    /\ cycle = [log |-> << "IDLE" >>, toggles |-> 0, ok |-> TRUE]
    /\ obs = NoObs

Init ==
    /\ now = StartTime
    /\ Constructed

\* readings of Date.now() within 150ms of its origin, and the first one past
EarlyTimes == {0, 100, 150}

\* the component constructed while the clock reads so little
InitEarly ==
    /\ now \in EarlyTimes
    /\ Constructed

\* ------------------------------------------------------------ environment
\* the mount effects have run: windowLabel is set and the panel listens
Mounted ==
    /\ label # "throws" => windowLabel = label
    /\ windowLabel = "panel" => listening
    /\ loads = 0
    /\ ~emitPending

\* the instants at which the session is observed: FineSteps after an accepted
\* toggle, the end of its debounce interval, and the deadlines of the timers
StepsAt(t, last) ==
    IF t = last THEN FineSteps
    ELSE IF t - last < DebounceMs THEN {DebounceMs - (t - last)}
    ELSE {}

\* time passes; a due timer fires before time moves past its deadline
Tick ==
    /\ Mounted
    /\ \E d \in StepsAt(now, lastHandledRef) :
        /\ now + d <= MaxTime
        /\ \A t \in timers : now + d <= t.at
        /\ now' = now + d
    /\ obs' = Observe("tick", 0, "none")
    /\ UNCHANGED << label, windowLabel, listening, phase, message, cached, closure,
                    lastHandledRef, recordingRef, lastPathRef, handlers, timers,
                    loads, store, emitPending, nToggles, accepted, nSettings,
                    calls, lastInvoke, phaseSince, cycle >>

\* time passes up to the deadline of the next timer
TickToTimer ==
    /\ Mounted
    /\ timers # {}
    /\ \E t \in timers :
        /\ \A u \in timers : t.at <= u.at
        /\ t.at > now
        /\ t.at <= MaxTime
        /\ now' = t.at
    /\ obs' = Observe("tick", 0, "none")
    /\ UNCHANGED << label, windowLabel, listening, phase, message, cached, closure,
                    lastHandledRef, recordingRef, lastPathRef, handlers, timers,
                    loads, store, emitPending, nToggles, accepted, nSettings,
                    calls, lastInvoke, phaseSince, cycle >>

\* ---------------------------------------------------------------- startup
\* initWindow: setWindowLabel(getCurrentWindow().label); when getCurrentWindow
\* throws (label "throws") the catch leaves windowLabel null
InitWindow ==
    /\ windowLabel = "null"
    /\ label # "throws"
    /\ windowLabel' = label
    /\ obs' = Observe("init_window", 0, label)
    /\ UNCHANGED << now, label, listening, phase, message, cached, closure,
                    lastHandledRef, recordingRef, lastPathRef, handlers, timers,
                    loads, store, emitPending, nToggles, accepted, nSettings,
                    calls, lastInvoke, phaseSince, cycle >>

\* the effect [windowLabel]: only the panel window registers the listener,
\* whose closure holds the state of the render that ran the effect
RegisterListenerAnyWindow ==
    /\ windowLabel # "null"
    /\ ~listening
    /\ listening' = TRUE
    /\ closure' = cached
    /\ obs' = Observe("register", 0, "none")
    /\ UNCHANGED << now, label, windowLabel, phase, message, cached,
                    lastHandledRef, recordingRef, lastPathRef, handlers, timers,
                    loads, store, emitPending, nToggles, accepted, nSettings,
                    calls, lastInvoke, phaseSince, cycle >>

RegisterListener ==
    /\ windowLabel = "panel"
    /\ ~listening
    /\ listening' = TRUE
    /\ closure' = cached
    /\ obs' = Observe("register", 0, "none")
    /\ UNCHANGED << now, label, windowLabel, phase, message, cached,
                    lastHandledRef, recordingRef, lastPathRef, handlers, timers,
                    loads, store, emitPending, nToggles, accepted, nSettings,
                    calls, lastInvoke, phaseSince, cycle >>

\* --------------------------------------------------------------- settings
\* Settings.tsx: invoke("save_settings") has written the store
SettingsSaved ==
    /\ nSettings < MaxSettingsEvents
    /\ ~emitPending
    /\ nSettings' = nSettings + 1
    /\ \E settings \in SettingsValues \ {store} : store' = settings
    /\ emitPending' = TRUE
    /\ obs' = Observe("settings_saved", 0, "none")
    /\ UNCHANGED << now, label, windowLabel, listening, phase, message, cached,
                    closure, lastHandledRef, recordingRef, lastPathRef, handlers,
                    timers, loads, nToggles, accepted, calls, lastInvoke,
                    phaseSince, cycle >>

\* listen("settings-updated", () => loadSettings())
SettingsUpdated ==
    /\ emitPending
    /\ emitPending' = FALSE
    /\ loads' = loads + 1
    /\ calls' = Count("get_settings")
    /\ lastInvoke' = Invoke("get_settings", 0, "", << >>, << >>, << >>)
    /\ obs' = Observe("settings_updated", 0, "none")
    /\ UNCHANGED << now, label, windowLabel, listening, phase, message, cached,
                    closure, lastHandledRef, recordingRef, lastPathRef, handlers,
                    timers, store, nToggles, accepted, nSettings, phaseSince,
                    cycle >>

\* the four setters of loadSettings
Loaded(settings) ==
    [provider |-> IF settings.provider = "google" THEN "google" ELSE "openai",
     openaiApiKey |-> OrDefault(settings.openai_api_key, << >>),
     googleApiKey |-> OrDefault(settings.google_api_key, << >>),
     googleLanguage |-> OrDefault(settings.google_language, EnUS)]

LoadSettingsReturnClearing ==
    /\ loads > 0
    /\ loads' = loads - 1
    /\ cached' = Loaded(store)
    /\ message' = << >>
    /\ obs' = Observe("load_return", 0, store)
    /\ UNCHANGED << now, label, windowLabel, listening, phase, closure,
                    lastHandledRef, recordingRef, lastPathRef, handlers, timers,
                    store, emitPending, nToggles, accepted, nSettings, calls,
                    lastInvoke, phaseSince, cycle >>

LoadSettingsReturn ==
    /\ loads > 0
    /\ loads' = loads - 1
    /\ cached' = Loaded(store)
    /\ obs' = Observe("load_return", 0, store)
    /\ UNCHANGED << now, label, windowLabel, listening, phase, message, closure,
                    lastHandledRef, recordingRef, lastPathRef, handlers, timers,
                    store, emitPending, nToggles, accepted, nSettings, calls,
                    lastInvoke, phaseSince, cycle >>

LoadSettingsFailResetting ==
    /\ loads > 0
    /\ loads' = loads - 1
    /\ cached' = DefaultSettings
    /\ obs' = Observe("load_fail", 0, "none")
    /\ UNCHANGED << now, label, windowLabel, listening, phase, message, closure,
                    lastHandledRef, recordingRef, lastPathRef, handlers, timers,
                    store, emitPending, nToggles, accepted, nSettings, calls,
                    lastInvoke, phaseSince, cycle >>

LoadSettingsFail ==
    /\ loads > 0
    /\ loads' = loads - 1
    /\ obs' = Observe("load_fail", 0, "none")
    /\ UNCHANGED << now, label, windowLabel, listening, phase, message, cached,
                    closure, lastHandledRef, recordingRef, lastPathRef, handlers,
                    timers, store, emitPending, nToggles, accepted, nSettings,
                    calls, lastInvoke, phaseSince, cycle >>

\* ------------------------------------------------------- dictation-toggle
\* a toggle signal reaches a window that has no listener
ToggleUnheard ==
    /\ nToggles < MaxToggles
    /\ ~listening
    /\ nToggles' = nToggles + 1
    /\ obs' = Observe("toggle_unheard", nToggles + 1, now)
    /\ UNCHANGED << now, label, windowLabel, listening, phase, message, cached,
                    closure, lastHandledRef, recordingRef, lastPathRef, handlers,
                    timers, loads, store, emitPending, accepted, nSettings, calls,
                    lastInvoke, phaseSince, cycle >>

\* a listener that stamps lastHandledRef before its debounce test
ToggleDroppedStamping ==
    /\ nToggles < MaxToggles
    /\ listening
    /\ GateDrops(now, lastHandledRef)
    /\ nToggles' = nToggles + 1
    /\ lastHandledRef' = now
    /\ obs' = Observe("toggle", nToggles + 1, now)
    /\ UNCHANGED << now, label, windowLabel, listening, phase, message, cached,
                    closure, recordingRef, lastPathRef, handlers, timers, loads,
                    store, emitPending, accepted, nSettings, calls, lastInvoke,
                    phaseSince, cycle >>

\* the early return of the debounce: lines 107-111
ToggleDropped ==
    /\ nToggles < MaxToggles
    /\ listening
    /\ GateDrops(now, lastHandledRef)
    /\ nToggles' = nToggles + 1
    /\ obs' = Observe("toggle", nToggles + 1, now)
    /\ UNCHANGED << now, label, windowLabel, listening, phase, message, cached,
                    closure, lastHandledRef, recordingRef, lastPathRef, handlers,
                    timers, loads, store, emitPending, accepted, nSettings, calls,
                    lastInvoke, phaseSince, cycle >>

\* accepted, recordingRef.current false: lines 112-121, up to the await
ToggleStart ==
    /\ nToggles < MaxToggles
    /\ Cardinality(handlers) < MaxInFlight
    /\ listening
    /\ ~GateDrops(now, lastHandledRef)
    /\ ~recordingRef
    /\ nToggles' = nToggles + 1
    /\ accepted' = Remember(now)
    /\ lastHandledRef' = now
    /\ recordingRef' = TRUE
    /\ phase' = "RECORDING"
    /\ message' = MsgRecording
    /\ calls' = Count("start_recording")
    /\ lastInvoke' = Invoke("start_recording", nToggles + 1, "", << >>, << >>, << >>)
    /\ handlers' = handlers \cup
           {Handler(nToggles + 1, "start", "", "", << >>, << >>, << >>, << >>)}
    /\ obs' = Observe("toggle", nToggles + 1, now)
    /\ StampPhase
    /\ TrackCycle
    /\ UNCHANGED << now, label, windowLabel, listening, cached, closure,
                    lastPathRef, timers, loads, store, emitPending, nSettings >>

\* accepted, recordingRef.current true: lines 112-130, up to the first await
ToggleStop ==
    /\ nToggles < MaxToggles
    /\ Cardinality(handlers) < MaxInFlight
    /\ listening
    /\ ~GateDrops(now, lastHandledRef)
    /\ recordingRef
    /\ nToggles' = nToggles + 1
    /\ accepted' = Remember(now)
    /\ lastHandledRef' = now
    /\ recordingRef' = FALSE
    /\ phase' = "TRANSCRIBING"
    /\ message' = MsgTranscribing
    /\ calls' = Count("stop_recording")
    /\ lastInvoke' = Invoke("stop_recording", nToggles + 1, "", << >>, << >>, << >>)
    /\ handlers' = handlers \cup
           {Handler(nToggles + 1, "stop", "", "", << >>, << >>, << >>, << >>)}
    /\ obs' = Observe("toggle", nToggles + 1, now)
    /\ StampPhase
    /\ TrackCycle
    /\ UNCHANGED << now, label, windowLabel, listening, cached, closure,
                    lastPathRef, timers, loads, store, emitPending, nSettings >>

\* ------------------------------------------------- the rest of the handler
\* catch (e): lines 208-219
CatchKeepsFlag(h, e) ==
    /\ recordingRef' = recordingRef
    /\ phase' = "ERROR"
    /\ message' = MsgError(ErrorMsgOf(e))
    /\ timers' = timers \cup {Timer(h.id, ErrorDelayMs)}
    /\ handlers' = handlers \ {h}
    /\ StampPhase

Catch(h, e) ==
    /\ recordingRef' = FALSE
    /\ phase' = "ERROR"
    /\ message' = MsgError(ErrorMsgOf(e))
    /\ timers' = timers \cup {Timer(h.id, ErrorDelayMs)}
    /\ handlers' = handlers \ {h}
    /\ StampPhase

\* await invoke("start_recording") resolves: lines 122-123, the handler ends
StartReturn ==
    /\ \E h \in handlers, path \in StartPaths :
        /\ h.pc = "start"
        /\ lastPathRef' = path
        /\ handlers' = handlers \ {h}
        /\ obs' = Observe("start_return", h.id, path)
    /\ UNCHANGED << now, label, windowLabel, listening, phase, message, cached,
                    closure, lastHandledRef, recordingRef, timers, loads, store,
                    emitPending, nToggles, accepted, nSettings, calls, lastInvoke,
                    phaseSince, cycle >>

StartFail ==
    /\ \E h \in handlers, v \in ErrorValues :
        /\ h.pc = "start"
        /\ Catch(h, Rejected(v))
        /\ obs' = Observe("start_fail", h.id, v)
    /\ TrackCycle
    /\ UNCHANGED << now, label, windowLabel, listening, cached, closure,
                    lastHandledRef, lastPathRef, loads, store, emitPending,
                    nToggles, accepted, nSettings, calls, lastInvoke >>

\* lines 137-140
NeedsRefresh(providerToUse, openaiKeyToUse, googleKeyToUse) ==
    \/ providerToUse = ""
    \/ providerToUse = "openai" /\ openaiKeyToUse = << >>
    \/ providerToUse = "google" /\ googleKeyToUse = << >>

\* a resolution that forgets the language default
LanguageToUseNoDefault(providerToUse, googleLanguageToUse) == googleLanguageToUse

\* lines 160-162
LanguageToUse(providerToUse, googleLanguageToUse) ==
    IF providerToUse = "google" /\ googleLanguageToUse = << >>
    THEN EnUS ELSE googleLanguageToUse

\* lines 154-178: the two throws, the language default, the dispatch
Dispatch(h, path, providerToUse, openaiKeyToUse, googleKeyToUse, googleLanguageToUse) ==
    IF providerToUse = "openai" /\ openaiKeyToUse = << >>
    THEN /\ Catch(h, Thrown(ErrNoOpenaiKey))
         /\ UNCHANGED << calls, lastInvoke >>
    ELSE IF providerToUse = "google" /\ googleKeyToUse = << >>
    THEN /\ Catch(h, Thrown(ErrNoGoogleKey))
         /\ UNCHANGED << calls, lastInvoke >>
    ELSE LET lang == LanguageToUse(providerToUse, googleLanguageToUse)
             fn == IF providerToUse = "google" THEN "google_transcribe"
                   ELSE "openai_transcribe"
         IN /\ calls' = Count(fn)
            /\ lastInvoke' =
                   IF providerToUse = "google"
                   THEN Invoke(fn, h.id, path, googleKeyToUse, lang, << >>)
                   ELSE Invoke(fn, h.id, path, openaiKeyToUse, << >>, << >>)
            /\ handlers' = (handlers \ {h}) \cup
                   {Handler(h.id, "transcribe", path, providerToUse, openaiKeyToUse,
                            googleKeyToUse, lang, << >>)}
            /\ UNCHANGED << phase, message, recordingRef, timers, phaseSince >>

\* await invoke("stop_recording") resolves: lines 131-178 up to the next await
StopReturn ==
    /\ \E h \in handlers, path \in StopPaths :
        /\ h.pc = "stop"
        /\ obs' = Observe("stop_return", h.id, path)
        /\ LET providerToUse == closure.provider
               openaiKeyToUse == Trim(closure.openaiApiKey)
               googleKeyToUse == Trim(closure.googleApiKey)
               googleLanguageToUse == Trim(closure.googleLanguage)
           IN IF NeedsRefresh(providerToUse, openaiKeyToUse, googleKeyToUse)
              THEN /\ calls' = Count("get_settings")
                   /\ lastInvoke' = Invoke("get_settings", h.id, "", << >>, << >>, << >>)
                   /\ handlers' = (handlers \ {h}) \cup
                          {Handler(h.id, "reload", path, providerToUse, openaiKeyToUse,
                                   googleKeyToUse, googleLanguageToUse, << >>)}
                   /\ UNCHANGED << phase, message, recordingRef, timers, phaseSince >>
              ELSE Dispatch(h, path, providerToUse, openaiKeyToUse, googleKeyToUse,
                            googleLanguageToUse)
    /\ TrackCycle
    /\ UNCHANGED << now, label, windowLabel, listening, cached, closure,
                    lastHandledRef, lastPathRef, loads, store, emitPending,
                    nToggles, accepted, nSettings >>

StopFail ==
    /\ \E h \in handlers, v \in ErrorValues :
        /\ h.pc = "stop"
        /\ Catch(h, Rejected(v))
        /\ obs' = Observe("stop_fail", h.id, v)
    /\ TrackCycle
    /\ UNCHANGED << now, label, windowLabel, listening, cached, closure,
                    lastHandledRef, lastPathRef, loads, store, emitPending,
                    nToggles, accepted, nSettings, calls, lastInvoke >>

\* the forced reload resolves: lines 145-178 up to the next await
ReloadReturn ==
    /\ \E h \in handlers :
        /\ h.pc = "reload"
        /\ obs' = Observe("reload_return", h.id, store)
        /\ LET latest == store
               providerToUse == IF latest.provider = "google" THEN "google" ELSE "openai"
               openaiKeyToUse == Trim(OrDefault(latest.openai_api_key, << >>))
               googleKeyToUse == Trim(OrDefault(latest.google_api_key, << >>))
               googleLanguageToUse == Trim(OrDefault(latest.google_language, << >>))
           IN /\ cached' = [provider |-> providerToUse,
                            openaiApiKey |-> openaiKeyToUse,
                            googleApiKey |-> googleKeyToUse,
                            googleLanguage |-> OrDefault(googleLanguageToUse, EnUS)]
              /\ Dispatch(h, h.path, providerToUse, openaiKeyToUse, googleKeyToUse,
                          googleLanguageToUse)
    /\ TrackCycle
    /\ UNCHANGED << now, label, windowLabel, listening, closure, lastHandledRef,
                    lastPathRef, loads, store, emitPending, nToggles, accepted,
                    nSettings >>

ReloadFail ==
    /\ \E h \in handlers, v \in ErrorValues :
        /\ h.pc = "reload"
        /\ Catch(h, Rejected(v))
        /\ obs' = Observe("reload_fail", h.id, v)
    /\ TrackCycle
    /\ UNCHANGED << now, label, windowLabel, listening, cached, closure,
                    lastHandledRef, lastPathRef, loads, store, emitPending,
                    nToggles, accepted, nSettings, calls, lastInvoke >>

\* an emptiness test that forgets the trim
IsBlankTextNever(text) == FALSE

IsBlankTextUntrimmed(text) == text = << >>

\* !text || text.trim().length === 0 (line 182)
IsBlankText(text) == text = << >> \/ Len(Trim(text)) = 0

\* the transcription call resolves: lines 180-192 up to the next await
TranscribeReturn ==
    /\ \E h \in handlers, text \in TextValues :
        /\ h.pc = "transcribe"
        /\ obs' = Observe("transcribe_return", h.id, text)
        /\ IF IsBlankText(text)
           THEN /\ phase' = "ERROR"
                /\ message' = MsgNoText
                /\ timers' = timers    \* returns at line 185, no setTimeout
                /\ handlers' = handlers \ {h}
                /\ UNCHANGED << calls, lastInvoke >>
           ELSE /\ phase' = "PASTING"
                /\ message' = MsgPasting
                /\ calls' = Count("paste_text")
                /\ lastInvoke' = Invoke("paste_text", h.id, "", << >>, << >>, text)
                /\ handlers' = (handlers \ {h}) \cup
                       {Handler(h.id, "paste", h.path, h.prov, h.okey, h.gkey, h.lang,
                                text)}
                /\ UNCHANGED timers
    /\ StampPhase
    /\ TrackCycle
    /\ UNCHANGED << now, label, windowLabel, listening, cached, closure,
                    lastHandledRef, recordingRef, lastPathRef, loads, store,
                    emitPending, nToggles, accepted, nSettings >>

TranscribeFail ==
    /\ \E h \in handlers, v \in ErrorValues :
        /\ h.pc = "transcribe"
        /\ Catch(h, Rejected(v))
        /\ obs' = Observe("transcribe_fail", h.id, v)
    /\ TrackCycle
    /\ UNCHANGED << now, label, windowLabel, listening, cached, closure,
                    lastHandledRef, lastPathRef, loads, store, emitPending,
                    nToggles, accepted, nSettings, calls, lastInvoke >>

\* the message of lines 194-200
PasteMessage(pasted, text) == IF pasted THEN MsgPasted(text) ELSE MsgCopied(text)

\* a paste branch that reports a false result as an error
PastePhaseStrict(pasted) == IF pasted THEN "DONE" ELSE "ERROR"

\* the phase of lines 194-200
PastePhase(pasted) == "DONE"

\* paste_text resolves: lines 194-206
PasteReturn ==
    /\ \E h \in handlers, pasted \in BOOLEAN :
        /\ h.pc = "paste"
        /\ phase' = PastePhase(pasted)
        /\ message' = PasteMessage(pasted, h.text)
        /\ timers' = timers \cup {Timer(h.id, DoneDelayMs)}
        /\ handlers' = handlers \ {h}
        /\ obs' = Observe("paste_return", h.id, pasted)
    /\ StampPhase
    /\ TrackCycle
    /\ UNCHANGED << now, label, windowLabel, listening, cached, closure,
                    lastHandledRef, recordingRef, lastPathRef, loads, store,
                    emitPending, nToggles, accepted, nSettings, calls, lastInvoke >>

PasteFail ==
    /\ \E h \in handlers, v \in ErrorValues :
        /\ h.pc = "paste"
        /\ Catch(h, Rejected(v))
        /\ obs' = Observe("paste_fail", h.id, v)
    /\ TrackCycle
    /\ UNCHANGED << now, label, windowLabel, listening, cached, closure,
                    lastHandledRef, lastPathRef, loads, store, emitPending,
                    nToggles, accepted, nSettings, calls, lastInvoke >>

\* a setTimeout callback runs: lines 203-206 and 216-219
TimerFireKeepsMessage ==
    /\ \E t \in timers :
        /\ t.at <= now
        /\ timers' = timers \ {t}
        /\ obs' = Observe("timer", t.by, t.delay)
    /\ phase' = "IDLE"
    /\ StampPhase
    /\ TrackCycle
    /\ UNCHANGED << now, label, windowLabel, listening, message, cached, closure,
                    lastHandledRef, recordingRef, lastPathRef, handlers, loads,
                    store, emitPending, nToggles, accepted, nSettings, calls,
                    lastInvoke >>

TimerFire ==
    /\ \E t \in timers :
        /\ t.at <= now
        /\ timers' = timers \ {t}
        /\ obs' = Observe("timer", t.by, t.delay)
    /\ phase' = "IDLE"
    /\ message' = << >>
    /\ StampPhase
    /\ TrackCycle
    /\ UNCHANGED << now, label, windowLabel, listening, cached, closure,
                    lastHandledRef, recordingRef, lastPathRef, handlers, loads,
                    store, emitPending, nToggles, accepted, nSettings, calls,
                    lastInvoke >>

\* ------------------------------------------------------------------- Next
Next ==
    \/ Tick
    \/ TickToTimer
    \/ InitWindow
    \/ RegisterListener
    \/ LoadSettingsReturn
    \/ LoadSettingsFail
    \/ ToggleUnheard
    \/ ToggleDropped
    \/ ToggleStart
    \/ ToggleStop
    \/ StartReturn
    \/ StartFail
    \/ StopReturn
    \/ StopFail
    \/ ReloadReturn
    \/ ReloadFail
    \/ TranscribeReturn
    \/ TranscribeFail
    \/ PasteReturn
    \/ PasteFail
    \/ TimerFire

\* one window of the application, its settings as installed
Spec == Init /\ [][Next]_vars

\* the same window while the user saves settings in the Settings window
NextSettings ==
    \/ Next
    \/ SettingsSaved
    \/ SettingsUpdated

SpecSettings == Init /\ [][NextSettings]_vars

\* the panel 150ms after its first toggle, which started a recording
\* (start_recording has returned): the listener was registered before or after
\* the startup load, and that load succeeded or failed
InitRecording ==
    /\ now = StartTime + DebounceMs
    /\ label = "panel"
    /\ windowLabel = "panel"
    /\ listening = TRUE
    /\ phase = "RECORDING"
    /\ message = MsgRecording
    /\ store \in StoredSettings
    /\ cached \in {DefaultSettings, Loaded(store)}
    /\ closure \in {DefaultSettings, cached}
    /\ lastHandledRef = StartTime
    /\ recordingRef = TRUE
    /\ lastPathRef \in StartPaths
    /\ handlers = {}
    /\ timers = {}
    /\ loads = 0
    /\ emitPending = FALSE
    /\ nToggles = 1
    /\ accepted = << StartTime >>
    /\ nSettings = 0
    /\ calls = [c \in Commands |->
                   IF c \in {"get_settings", "start_recording"} THEN 1 ELSE 0]
    /\ lastInvoke = Invoke("start_recording", 1, "", << >>, << >>, << >>)
    /\ phaseSince = StartTime
    /\ cycle = [log |-> << "IDLE", "RECORDING" >>, toggles |-> 1, ok |-> TRUE]
    /\ obs = Observe("tick", 0, "none")

\* the steps of a mounted panel: time, toggles, the handler, the timers
NextSession ==
    \/ Tick
    \/ TickToTimer
    \/ ToggleDropped
    \/ ToggleStart
    \/ ToggleStop
    \/ StartReturn
    \/ StartFail
    \/ StopReturn
    \/ StopFail
    \/ ReloadReturn
    \/ ReloadFail
    \/ TranscribeReturn
    \/ TranscribeFail
    \/ PasteReturn
    \/ PasteFail
    \/ TimerFire

\* the application started within 150ms of the origin of its clock
SpecEarly == InitEarly /\ [][Next]_vars

\* ------------------------------------- settings saved during a dictation
\* the session with the Settings window saving and notifying at any moment
NextSessionSettings ==
    \/ NextSession
    \/ SettingsSaved
    \/ SettingsUpdated
    \/ LoadSettingsReturn
    \/ LoadSettingsFail

\* the panel 150ms after its first toggle with one toggle signal left to come:
\* either the signals since were dropped by the debounce and the recording
\* goes on, or the last one was accepted and its stop_recording is pending;
\* the load of the mount has returned, has failed or is still pending
InitLastToggle ==
    /\ now = StartTime + DebounceMs
    /\ label = "panel"
    /\ windowLabel = "panel"
    /\ listening = TRUE
    /\ store \in InstalledSettings
    /\ loads \in {0, 1}
    /\ cached \in IF loads = 1 THEN {DefaultSettings}
                  ELSE {DefaultSettings, Loaded(store)}
    /\ closure \in {DefaultSettings, cached}
    /\ lastPathRef \in StartPaths
    /\ timers = {}
    /\ emitPending = FALSE
    /\ nToggles = MaxToggles - 1
    /\ nSettings = 0
    /\ \/ /\ phase = "RECORDING"
          /\ message = MsgRecording
          /\ lastHandledRef = StartTime
          /\ recordingRef = TRUE
          /\ handlers = {}
          /\ accepted = << StartTime >>
          /\ calls = [c \in Commands |->
                         IF c \in {"get_settings", "start_recording"} THEN 1 ELSE 0]
          /\ lastInvoke = Invoke("start_recording", 1, "", << >>, << >>, << >>)
          /\ phaseSince = StartTime
          /\ cycle = [log |-> << "IDLE", "RECORDING" >>, toggles |-> 1, ok |-> TRUE]
          /\ obs = Observe("tick", 0, "none")
       \/ /\ phase = "TRANSCRIBING"
          /\ message = MsgTranscribing
          /\ lastHandledRef = now
          /\ recordingRef = FALSE
          /\ handlers = {Handler(nToggles, "stop", "", "", << >>, << >>, << >>, << >>)}
          /\ accepted = << now, StartTime >>
          /\ calls = [c \in Commands |->
                         IF c \in {"get_settings", "start_recording", "stop_recording"}
                         THEN 1 ELSE 0]
          /\ lastInvoke = Invoke("stop_recording", nToggles, "", << >>, << >>, << >>)
          /\ phaseSince = now
          /\ cycle = [log |-> << "IDLE", "RECORDING", "TRANSCRIBING" >>,
                      toggles |-> 2, ok |-> TRUE]
          /\ obs = Observe("toggle", nToggles, now)

SpecLastToggle == InitLastToggle /\ [][NextSessionSettings]_vars


\* ------------------------------------------- a stop transition left alone
\* the stop toggle was accepted and its stop_recording is pending; the load of
\* the mount is over
InitStopping ==
    /\ InitLastToggle
    /\ phase = "TRANSCRIBING"
    /\ loads = 0

\* no further toggle: the calls of the run return or fail, time passes, the
\* timers fire
NextStopping ==
    \/ Tick
    \/ TickToTimer
    \/ StopReturn
    \/ StopFail
    \/ ReloadReturn
    \/ ReloadFail
    \/ TranscribeReturn
    \/ TranscribeFail
    \/ PasteReturn
    \/ PasteFail
    \/ TimerFire

\* every pending call eventually returns or fails, and the event loop runs
\* the timer callbacks that are due
SpecStopping ==
    /\ InitStopping
    /\ [][NextStopping]_vars
    /\ WF_vars(Tick \/ TickToTimer)
    /\ WF_vars(StopReturn \/ StopFail)
    /\ WF_vars(ReloadReturn \/ ReloadFail)
    /\ WF_vars(TranscribeReturn \/ TranscribeFail)
    /\ WF_vars(PasteReturn \/ PasteFail)
    /\ WF_vars(TimerFire)


\* the session from a recording in progress, over every stored settings
SpecRecording == InitRecording /\ [][NextSession]_vars

TypeOK ==
    /\ phase \in Phases
    /\ recordingRef \in BOOLEAN
    /\ now \in 0..MaxTime
    /\ Cardinality(handlers) <= MaxInFlight

\* ================================================================= claims
\* a toggle signal is delivered to the registered listener in this step
ToggleHeard == nToggles' = nToggles + 1 /\ listening

\* the delivered toggle passes the gate in this step
ToggleAccepted == ToggleHeard /\ accepted' # accepted

\* time of the last accepted toggle, the initial lastHandledRef if none
LastAccepted == IF accepted = << >> THEN 0 ELSE accepted[1]

\* the handler run whose awaited call the event of this step answers
Answered(h) == h \in handlers /\ h.id = obs'.id

\* C1: a toggle that passes the gate while the phase is TRANSCRIBING or
\* PASTING leaves the phase unchanged, invokes neither start_recording nor
\* stop_recording, and leaves the runs in flight as they are.
C1_MidFlightToggleIsNoOp ==
    [][ (ToggleAccepted /\ phase \in {"TRANSCRIBING", "PASTING"})
        => /\ phase' = phase
           /\ calls'["start_recording"] = calls["start_recording"]
           /\ calls'["stop_recording"] = calls["stop_recording"]
           /\ handlers' = handlers ]_vars

\* C2: no recovery timer fires (setting the phase to IDLE and clearing the
\* message) while a cycle is recording, transcribing or pasting: a timer armed
\* by an earlier cycle is cancelled by the toggle that starts the new one.
C2_NoStaleTimerFires ==
    [][ (obs'.kind = "timer" /\ timers' # timers)
        => phase \notin {"RECORDING", "TRANSCRIBING", "PASTING"} ]_vars

\* the edges of the state machine
PhaseEdges ==
    ({"IDLE", "DONE", "ERROR"} \X {"RECORDING", "ERROR"})
    \cup ({"RECORDING"} \X {"TRANSCRIBING", "ERROR"})
    \cup ({"TRANSCRIBING"} \X {"PASTING", "ERROR"})
    \cup {<< "PASTING", "DONE" >>, << "DONE", "IDLE" >>, << "ERROR", "IDLE" >>}

\* C3: every change of phase is an edge of the state machine.
C3_PhaseChangesAreEdges ==
    [][ phase' # phase => << phase, phase' >> \in PhaseEdges ]_vars

FullCycle == << "IDLE", "RECORDING", "TRANSCRIBING", "PASTING", "DONE", "IDLE" >>

IsPrefix(s, t) == Len(s) <= Len(t) /\ s = SubSeq(t, 1, Len(s))

\* C4: in a cycle started from IDLE, with at most two accepted toggles and no
\* failed call, the phases shown are IDLE, RECORDING, TRANSCRIBING, PASTING,
\* DONE, IDLE in that order, none skipped and none revisited.
C4_CleanCycleSequence ==
    (cycle.ok /\ cycle.toggles <= 2) => IsPrefix(cycle.log, FullCycle)

\* C5: a toggle is dropped iff it arrives less than 150ms after the last
\* accepted toggle; otherwise it is accepted and becomes the last accepted
\* one; dropped toggles do not move lastHandledRef, and two accepted toggles
\* are at least 150ms apart.
C5_Debounce ==
    [][ ToggleHeard
        => /\ IF now - LastAccepted < DebounceMs
              THEN accepted' = accepted /\ lastHandledRef' = lastHandledRef
              ELSE accepted' = Remember(now) /\ lastHandledRef' = now
           /\ lastHandledRef' = IF accepted' = << >> THEN 0 ELSE accepted'[1]
           /\ Len(accepted') = 2 => accepted'[1] - accepted'[2] >= DebounceMs
      ]_vars

\* a toggle has just been accepted exactly 150ms after the previous accepted one
C5_Witness ==
    /\ obs.kind = "toggle"
    /\ obs.arg = now
    /\ Len(accepted) = 2
    /\ accepted[1] = now
    /\ accepted[1] - accepted[2] = DebounceMs
    /\ lastHandledRef = now

\* C6: a toggle dropped by the gate changes nothing of the session and
\* invokes no backend command.
C6_DroppedToggleHasNoEffect ==
    [][ (ToggleHeard /\ now - LastAccepted < DebounceMs)
        => UNCHANGED << phase, message, recordingRef, lastPathRef, lastHandledRef,
                        cached, closure, timers, handlers, loads, store, calls,
                        lastInvoke >> ]_vars

\* a toggle has just been dropped, 100ms after the accepted one, mid-recording
C6_Witness ==
    /\ obs.kind = "toggle"
    /\ obs.id = nToggles
    /\ accepted # << >>
    /\ now - accepted[1] > 0
    /\ now - accepted[1] < DebounceMs
    /\ lastHandledRef = accepted[1]
    /\ phase = "RECORDING"

\* C7: the phase leaves DONE for IDLE exactly 2000ms, and ERROR for IDLE
\* exactly 3000ms, after it became DONE or ERROR, clearing the message.
C7_RecoveryTiming ==
    [][ (phase \in {"DONE", "ERROR"} /\ phase' = "IDLE")
        => /\ now - phaseSince = IF phase = "DONE" THEN DoneDelayMs ELSE ErrorDelayMs
           /\ message' = << >> ]_vars

\* C8: every step that sets the phase to ERROR arms a 3000ms recovery timer.
C8_ErrorArmsRecovery ==
    [][ (phase' = "ERROR" /\ phase # "ERROR")
        => \E t \in timers' \ timers :
               t.delay = ErrorDelayMs /\ t.at = now + ErrorDelayMs ]_vars

C10_PasteResult ==
    [][ (obs' # obs /\ obs'.kind = "paste_return")
        => \E h \in handlers :
             /\ Answered(h) /\ h.pc = "paste"
             /\ Trim(h.text) # << >>
             /\ phase' = "DONE"
             /\ obs'.arg => message' = << "Pasted: \"" >> \o h.text \o << "\"" >>
             /\ ~obs'.arg => /\ Contains(message', h.text)
                             /\ Contains(message', << "Copied to clipboard (press Cmd-V): \"" >>)
                             /\ ~Contains(message', << "Error: " >>)
             /\ timers' \ timers =
                    {[at |-> now + DoneDelayMs, by |-> h.id, delay |-> DoneDelayMs]}
      ]_vars

\* paste_text has just returned false: DONE, clipboard message, timer at +2000
C10_Witness ==
    /\ obs.kind = "paste_return"
    /\ obs.arg = FALSE
    /\ phase = "DONE"
    /\ Contains(message, << " ", "hi" >>)
    /\ \E t \in timers : t.by = obs.id /\ t.at = now + DoneDelayMs

\* C11: when paste_text rejects instead of returning false, the cycle ends in
\* phase DONE with a clipboard-fallback message containing the transcript, not
\* in phase ERROR.
C11_PasteErrorIsDegradedSuccess ==
    [][ (obs' # obs /\ obs'.kind = "paste_fail")
        => \E h \in handlers :
             /\ Answered(h) /\ h.pc = "paste"
             /\ phase' = "DONE"
             /\ Contains(message', h.text)
             /\ ~Contains(message', << "Error: " >>) ]_vars

\* the settings c of the cache lack a non-blank key for their provider
LacksCredential(c) ==
    \/ c.provider = "openai" /\ Trim(c.openaiApiKey) = << >>
    \/ c.provider = "google" /\ Trim(c.googleApiKey) = << >>

\* provider and trimmed key re-derived from a snapshot of the store
ProviderOf(latest) == IF latest.provider = "google" THEN "google" ELSE "openai"

KeyOf(latest) ==
    Trim(IF latest.provider = "google" THEN latest.google_api_key
         ELSE latest.openai_api_key)

TranscribeOf(provider) ==
    IF provider = "google" THEN "google_transcribe" ELSE "openai_transcribe"

\* the message shown when the key of provider is missing
MissingKeyMessage(provider) ==
    IF provider = "google"
    THEN << "Error: ", "Please set your Google API key in Settings" >>
    ELSE << "Error: ", "Please set your OpenAI API key in Settings" >>

\* no transcription call is invoked in this step
NoTranscribeCall ==
    /\ calls'["openai_transcribe"] = calls["openai_transcribe"]
    /\ calls'["google_transcribe"] = calls["google_transcribe"]

\* C12: in a stop transition get_settings is invoked at most once, and it is
\* invoked iff the cached settings lack a non-blank key for their provider;
\* after the reload a still blank key of the re-derived provider ends the cycle
\* with the missing-key error and no second reload, and a key now present
\* sends the refreshed provider's transcription call with the refreshed key.
C12_RetryOnce ==
    [][ /\ (obs' # obs /\ obs'.kind = "stop_return")
           => /\ calls'["get_settings"] =
                    calls["get_settings"] + (IF LacksCredential(cached) THEN 1 ELSE 0)
              /\ LacksCredential(cached) => NoTranscribeCall
        /\ (obs' # obs /\ obs'.kind = "reload_return")
           => /\ calls'["get_settings"] = calls["get_settings"]
              /\ IF KeyOf(obs'.arg) = << >>
                 THEN /\ phase' = "ERROR"
                      /\ message' = MissingKeyMessage(ProviderOf(obs'.arg))
                      /\ NoTranscribeCall
                      /\ \A h \in handlers' : h.id # obs'.id
                 ELSE /\ lastInvoke'.fn = TranscribeOf(ProviderOf(obs'.arg))
                      /\ lastInvoke'.apiKey = KeyOf(obs'.arg)
                      /\ lastInvoke'.by = obs'.id
                      /\ calls'[lastInvoke'.fn] = calls[lastInvoke'.fn] + 1
        /\ (obs' # obs /\ obs'.kind \in {"transcribe_return", "paste_return"} \cup FailureKinds)
           => calls'["get_settings"] = calls["get_settings"]
      ]_vars

\* C13: when the get_settings of the forced reload rejects, the cycle ends in
\* phase ERROR with the message naming the missing key of the selected
\* provider, not with the message of the settings-load error.
C13_ReloadFailureIsMissingCredential ==
    [][ (obs' # obs /\ obs'.kind = "reload_fail")
        => \E h \in handlers :
             /\ Answered(h) /\ h.pc = "reload"
             /\ phase' = "ERROR"
             /\ message' = MissingKeyMessage(h.prov)
             /\ ~Contains(message', obs'.arg) ]_vars

C15_GoogleLanguage ==
    [][ /\ calls'["google_transcribe"] # calls["google_transcribe"]
           => LET used == IF obs'.kind = "reload_return"
                          THEN obs'.arg.google_language
                          ELSE closure.googleLanguage
              IN /\ obs'.kind \in {"stop_return", "reload_return"}
                 /\ lastInvoke'.fn = "google_transcribe"
                 /\ lastInvoke'.language # << >>
                 /\ Trim(lastInvoke'.language) = lastInvoke'.language
                 /\ lastInvoke'.language =
                        IF Trim(used) = << >> THEN << "en-US" >> ELSE Trim(used)
        /\ calls'["openai_transcribe"] # calls["openai_transcribe"]
           => /\ lastInvoke'.fn = "openai_transcribe"
              /\ lastInvoke'.language = << >>
      ]_vars

\* google_transcribe has just been invoked from the listener's own settings,
\* whose language is blank, with "en-US"
C15_Witness ==
    /\ obs.kind = "stop_return"
    /\ lastInvoke.fn = "google_transcribe"
    /\ lastInvoke.by = obs.id
    /\ closure.googleLanguage = << " " >>
    /\ lastInvoke.language = << "en-US" >>

\* C16: at most one recovery timer is pending in every reachable state.
C16_AtMostOneTimer == Cardinality(timers) <= 1

\* C17: the recording flag is set whenever the phase is RECORDING, and it is
\* set only while the phase is RECORDING or a stop transition has not yet got
\* the answer of stop_recording; it is never set in IDLE, PASTING, DONE, ERROR.
C17_RecordingFlagMatchesPhase ==
    /\ phase = "RECORDING" => recordingRef
    /\ recordingRef
       => \/ phase = "RECORDING"
          \/ phase = "TRANSCRIBING" /\ \E h \in handlers : h.pc = "stop"

\* C18: a toggle accepted while a call issued by an earlier toggle is still
\* pending invokes no backend command, and stop_recording is never invoked
\* while a start_recording is pending.
C18_OneActiveTransition ==
    [][ /\ (ToggleAccepted /\ handlers # {}) => calls' = calls
        /\ calls'["stop_recording"] # calls["stop_recording"]
           => \A h \in handlers : h.pc # "start" ]_vars

\* C19: a toggle accepted while the phase is DONE or ERROR invokes
\* start_recording and not stop_recording, and shows RECORDING at once; as the
\* handler picks its branch by recordingRef alone, the flag is clear whenever
\* the phase has become DONE or ERROR, whichever path led there.
C19_ToggleInDoneOrErrorStarts ==
    [][ /\ (ToggleAccepted /\ phase \in {"DONE", "ERROR"})
           => /\ calls'["start_recording"] = calls["start_recording"] + 1
              /\ calls'["stop_recording"] = calls["stop_recording"]
              /\ phase' = "RECORDING"
        /\ phase' \in {"DONE", "ERROR"} => ~recordingRef' ]_vars

\* C20: the phase becomes RECORDING only in the step in which start_recording
\* returns; when start_recording fails the phase goes from IDLE to ERROR and
\* RECORDING is not shown.
C20_RecordingOnlyAfterStart ==
    [][ /\ (phase' = "RECORDING" /\ phase # "RECORDING")
           => obs'.kind = "start_return"
        /\ (obs' # obs /\ obs'.kind = "start_fail")
           => phase # "RECORDING" /\ phase' = "ERROR" ]_vars

\* C21: the phase becomes TRANSCRIBING only in the step in which stop_recording
\* returns its audio, and a failing stop_recording takes the phase from
\* RECORDING to ERROR, TRANSCRIBING never having been shown.
C21_TranscribingOnlyAfterStop ==
    [][ /\ (phase' = "TRANSCRIBING" /\ phase # "TRANSCRIBING")
           => obs'.kind = "stop_return"
        /\ (obs' # obs /\ obs'.kind = "stop_fail")
           => phase = "RECORDING" /\ phase' = "ERROR" ]_vars

\* the failures a run of the toggle handler meets before its paste
CaughtKinds == {"start_fail", "stop_fail", "reload_fail", "transcribe_fail"}

\* this step is such a failure, or the resolution finding no key
FailureCaught ==
    /\ obs' # obs
    /\ \/ obs'.kind \in CaughtKinds
       \/ obs'.kind = "reload_return" /\ KeyOf(obs'.arg) = << >>

\* C22: a failure of start_recording, of stop_recording, of the credential
\* resolution or of the transcription ends the run that met it inside the
\* handler: the run is gone, the phase is ERROR, the message is not empty and
\* starts with "Error: ", and the recording flag is clear.
C22_FailureIsCaught ==
    [][ FailureCaught
        => \E h \in handlers :
             /\ Answered(h)
             /\ \A g \in handlers' : g.id # h.id
             /\ handlers' = handlers \ {h}
             /\ phase' = "ERROR"
             /\ message' # << >>
             /\ Head(message') = "Error: "
             /\ Len(message') > 1
             /\ recordingRef' = FALSE ]_vars

\* start_recording has just failed in a run that had set the recording flag:
\* ERROR with the failure's text, the flag clear, the run gone
C22_Witness ==
    /\ obs.kind = "start_fail"
    /\ phase = "ERROR"
    /\ message = MsgError(obs.arg)
    /\ ~recordingRef
    /\ \A h \in handlers : h.id # obs.id

\* C23: a settings-updated notification and the return or the failure of the
\* load it starts leave the phase, the message, the recording flag, the
\* timestamp of the last accepted toggle, the recorded path, the pending
\* timers and the runs of the toggle handler in flight as they were.
C23_SettingsOnlyTouchCache ==
    [][ loads' # loads
        => /\ phase' = phase
           /\ message' = message
           /\ recordingRef' = recordingRef
           /\ lastHandledRef' = lastHandledRef
           /\ lastPathRef' = lastPathRef
           /\ timers' = timers
           /\ handlers' = handlers
           /\ listening' = listening
           /\ phaseSince' = phaseSince ]_vars

\* the load of a notification has just refreshed the cache while a run of the
\* handler waits for its transcription
C23_Witness ==
    /\ obs.kind = "load_return"
    /\ nSettings = 1
    /\ cached = Loaded(store)
    /\ phase = "TRANSCRIBING"
    /\ message = MsgTranscribing
    /\ \E h \in handlers : h.pc = "transcribe"

\* the key the cached settings hold for their provider, trimmed
CachedKey ==
    Trim(IF cached.provider = "google" THEN cached.googleApiKey
         ELSE cached.openaiApiKey)

\* C24: the transcription call a run invokes when its stop_recording returns
\* is the call of the provider of the cached settings, with the cached key of
\* that provider and, for google, the cached language.
C24_ResolvedFromCurrentSettings ==
    [][ (obs' # obs /\ obs'.kind = "stop_return" /\ ~NoTranscribeCall)
        => /\ lastInvoke'.fn = TranscribeOf(cached.provider)
           /\ lastInvoke'.apiKey = CachedKey
           /\ cached.provider = "google"
              => lastInvoke'.language = OrDefault(Trim(cached.googleLanguage), EnUS)
      ]_vars

\* C25: a failing load leaves the cached settings as they were, the cache
\* changes only in a step in which get_settings returns, and while the load of
\* the mount is the only get_settings invoked and is pending the cache holds
\* the defaults: openai, no keys, en-US.
C25_FailedLoadKeepsCache ==
    [][ /\ (loads' < loads /\ obs'.kind = "load_fail") => cached' = cached
        /\ (obs' # obs /\ obs'.kind = "reload_fail") => cached' = cached
        /\ cached' # cached => obs'.kind \in {"load_return", "reload_return"}
        /\ (loads = 1 /\ calls["get_settings"] = 1 /\ nSettings = 0)
           => /\ cached = DefaultSettings
              /\ cached.provider = "openai"
              /\ cached.openaiApiKey = << >>
              /\ cached.googleApiKey = << >>
              /\ cached.googleLanguage = << "en-US" >>
      ]_vars

\* the load after a notification has just failed: the cache holds the
\* snapshot loaded before, the store the settings saved since
C25_Witness ==
    /\ obs.kind = "load_fail"
    /\ nSettings = 1
    /\ loads = 0
    /\ cached # DefaultSettings
    /\ cached # Loaded(store)

\* C26: whenever the phase is IDLE the message is the empty string.
C26_IdleHasNoMessage == phase = "IDLE" => message = << >>

\* a timer has just brought the panel back to IDLE after a message was shown
C26_Witness ==
    /\ obs.kind = "timer"
    /\ phase = "IDLE"
    /\ message = << >>
    /\ phaseSince = now
    /\ calls["start_recording"] > 0

\* in this step the command fn is invoked once and no other command is
OnlyCall(fn) ==
    calls' = [c \in Commands |-> IF c = fn THEN calls[c] + 1 ELSE calls[c]]

\* the two transcription commands
TranscribeCalls == {"openai_transcribe", "google_transcribe"}

\* the first accepted toggle invokes start_recording once and nothing else,
\* an accepted toggle in RECORDING invokes stop_recording once and nothing
\* else, and when stop_recording returns its run invokes one command: the
\* transcription, or the forced reload that precedes it
PressOncePressAgain ==
    /\ (ToggleAccepted /\ accepted = << >>)
       => phase = "IDLE" /\ OnlyCall("start_recording")
    /\ (ToggleAccepted /\ phase = "RECORDING")
       => OnlyCall("stop_recording")
    /\ (obs' # obs /\ obs'.kind = "stop_return")
       => \E fn \in TranscribeCalls \cup {"get_settings"} : OnlyCall(fn)
    /\ (obs' # obs /\ obs'.kind = "paste_return") => calls' = calls

\* C27 as stated: ... and with no call failing, the run of the stop invokes
\* exactly one transcription call and, when it returns, exactly one
\* paste_text.
C27_AsStated ==
    [][ /\ PressOncePressAgain
        /\ (obs' # obs /\ obs'.kind = "reload_return")
           => \E fn \in TranscribeCalls : OnlyCall(fn)
        /\ (obs' # obs /\ obs'.kind = "transcribe_return")
           => OnlyCall("paste_text") ]_vars

\* C27: press once to start, press again to stop: the first accepted toggle
\* invokes start_recording once and nothing else; an accepted toggle in
\* RECORDING invokes stop_recording once, its run then invokes exactly one
\* transcription call when a key is resolved, none when the forced reload
\* finds none, and exactly one paste_text when the transcription returns a
\* text that is not blank, none when it is blank.
C27_PressOncePressAgain ==
    [][ /\ PressOncePressAgain
        /\ (obs' # obs /\ obs'.kind = "reload_return")
           => IF KeyOf(obs'.arg) = << >> THEN calls' = calls
              ELSE \E fn \in TranscribeCalls : OnlyCall(fn)
        /\ (obs' # obs /\ obs'.kind = "transcribe_return")
           => IF IsBlankText(obs'.arg) THEN calls' = calls
              ELSE OnlyCall("paste_text") ]_vars

\* two toggles, no failure: each of the four commands was invoked once
C27_Witness ==
    /\ obs.kind = "paste_return"
    /\ nToggles = 2
    /\ calls["start_recording"] = 1
    /\ calls["stop_recording"] = 1
    /\ calls["openai_transcribe"] + calls["google_transcribe"] = 1
    /\ calls["paste_text"] = 1
    /\ phase = "DONE"

\* C28: the first toggle signal the listener hears is accepted whatever the
\* clock reads: it starts a recording.
C28_FirstToggleAccepted ==
    [][ (ToggleHeard /\ nToggles = 0)
        => /\ accepted' = << now >>
           /\ recordingRef'
           /\ phase' = "RECORDING"
           /\ calls'["start_recording"] = 1 ]_vars

\* the key has a character and none of its ends is a blank
IsTrimmedKey(k) == k # << >> /\ Head(k) # Blank /\ k[Len(k)] # Blank

\* C29: a transcription call is invoked only by a run whose stop_recording has
\* returned (in that step, or before its forced reload), with the path that
\* stop_recording returned and with the key of the invoked provider, taken
\* from the settings the run resolved from, trimmed and not empty.
C29_TranscribeAfterStop ==
    [][ ~NoTranscribeCall
        => \E h \in handlers :
             /\ Answered(h)
             /\ lastInvoke'.by = h.id
             /\ lastInvoke'.fn \in {"openai_transcribe", "google_transcribe"}
             /\ calls' = [calls EXCEPT ![lastInvoke'.fn] = @ + 1]
             /\ IsTrimmedKey(lastInvoke'.apiKey)
             /\ \/ /\ obs'.kind = "stop_return"
                   /\ h.pc = "stop"
                   /\ lastInvoke'.audioPath = obs'.arg
                   /\ lastInvoke'.fn = TranscribeOf(closure.provider)
                   /\ lastInvoke'.apiKey =
                          IF lastInvoke'.fn = "google_transcribe"
                          THEN Trim(closure.googleApiKey)
                          ELSE Trim(closure.openaiApiKey)
                \/ /\ obs'.kind = "reload_return"
                   /\ h.pc = "reload"
                   /\ h.path \in StopPaths
                   /\ lastInvoke'.audioPath = h.path
                   /\ lastInvoke'.fn = TranscribeOf(ProviderOf(obs'.arg))
                   /\ lastInvoke'.apiKey =
                          IF lastInvoke'.fn = "google_transcribe"
                          THEN Trim(obs'.arg.google_api_key)
                          ELSE Trim(obs'.arg.openai_api_key) ]_vars

\* stop_recording has just returned b.wav and google_transcribe was invoked
\* with it and with the google key of the listener's settings, trimmed
C29_Witness ==
    /\ obs.kind = "stop_return"
    /\ obs.arg = "b.wav"
    /\ lastInvoke.fn = "google_transcribe"
    /\ lastInvoke.audioPath = "b.wav"
    /\ closure.googleApiKey = << "gk", " " >>
    /\ lastInvoke.apiKey = << "gk" >>
    /\ \E h \in handlers : h.id = obs.id /\ h.pc = "transcribe"

\* C30: paste_text is invoked only in the step in which a run's transcription
\* returns a text that is not blank, once, with that text and with the phase
\* set to PASTING; a run waiting for paste_text invokes nothing more; and the
\* phase becomes DONE only in the step in which the paste_text of a run
\* returns.
C30_PasteOncePerCycle ==
    [][ /\ calls'["paste_text"] # calls["paste_text"]
           => \E h \in handlers :
                /\ Answered(h)
                /\ h.pc = "transcribe"
                /\ obs'.kind = "transcribe_return"
                /\ OnlyCall("paste_text")
                /\ phase' = "PASTING"
                /\ lastInvoke'.fn = "paste_text"
                /\ lastInvoke'.by = h.id
                /\ lastInvoke'.text = obs'.arg
                /\ Trim(obs'.arg) # << >>
                /\ \E g \in handlers' : g.id = h.id /\ g.pc = "paste"
        /\ (obs' # obs /\ obs'.kind \in {"paste_return", "paste_fail"})
           => /\ calls' = calls
              /\ \A g \in handlers' : g.id # obs'.id
        /\ (phase' = "DONE" /\ phase # "DONE")
           => /\ obs'.kind = "paste_return"
              /\ \E h \in handlers : Answered(h) /\ h.pc = "paste"
              /\ calls["paste_text"] > 0 ]_vars

\* the transcription has just returned " hi": PASTING, paste_text invoked
\* with it
C30_Witness ==
    /\ obs.kind = "transcribe_return"
    /\ obs.arg = << " ", "hi" >>
    /\ phase = "PASTING"
    /\ lastInvoke.fn = "paste_text"
    /\ lastInvoke.text = << " ", "hi" >>
    /\ calls["paste_text"] = 1

\* the start_recording invoked last is pending and no command was invoked
\* since: a recording that no stop_recording has matched
UnmatchedStart ==
    /\ lastInvoke.fn = "start_recording"
    /\ \E h \in handlers : h.id = lastInvoke.by /\ h.pc = "start"

\* C31: start_recording and stop_recording are invoked in turn, start first:
\* stop_recording was never invoked more often than start_recording, and
\* while the last start_recording is unmatched the recording flag is set, so
\* that the next accepted toggle invokes stop_recording, not start_recording.
C31_StartStopAlternate ==
    /\ calls["stop_recording"] <= calls["start_recording"]
    /\ UnmatchedStart => recordingRef

\* C32: when a transcription call fails, the phase becomes ERROR and the
\* message is the text of the failure itself, nothing before or after it.
C32_ProviderMessageUnmodified ==
    [][ (obs' # obs /\ obs'.kind = "transcribe_fail")
        => /\ phase' = "ERROR"
           /\ message' = obs'.arg ]_vars

\* C33: with no further toggle and every call returning or failing, a session
\* in TRANSCRIBING or PASTING reaches IDLE (through DONE or ERROR).
C33_StopTransitionTerminates ==
    (phase \in {"TRANSCRIBING", "PASTING"}) ~> (phase = "IDLE")

\* C34: the dictation-toggle listener exists only in the window labelled
\* "panel"; in a window whose label is unknown or "settings" no toggle is
\* accepted, the phase stays IDLE with no message, the recording flag stays
\* clear and neither start_recording nor stop_recording is ever invoked.
C34_OnlyThePanelListens ==
    /\ listening => windowLabel = "panel" /\ label = "panel"
    /\ label # "panel"
       => /\ phase = "IDLE"
          /\ message = << >>
          /\ ~recordingRef
          /\ lastHandledRef = 0
          /\ accepted = << >>
          /\ handlers = {}
          /\ timers = {}
          /\ calls["start_recording"] = 0
          /\ calls["stop_recording"] = 0

\* the settings window knows its label and toggle signals were emitted: it
\* has not reacted
C34_Witness ==
    /\ label = "settings"
    /\ windowLabel = "settings"
    /\ obs.kind = "toggle_unheard"
    /\ nToggles = 2
    /\ loads = 0
    /\ phase = "IDLE"
    /\ calls["start_recording"] = 0

====
